---- MODULE Spec2Model ----
(***************************************************************************)
(* Model of py/vtdb/update_stream_service.py: the update-stream client     *)
(* (UpdateStreamConnection), the event decoder (EventData.__init__) and    *)
(* the start position (Coord).                                             *)
(*                                                                         *)
(* Python values are modelled with their type where the code tests it:     *)
(* None is [t |-> "None"], a list is [t |-> "list", v |-> <<...>>], a      *)
(* dict is a function from its keys, an exception is [type, args].         *)
(***************************************************************************)
EXTENDS Integers, Sequences, FiniteSets, TLC

VARIABLES
  self,           \* the connection object: its instance attributes
  client,         \* the transport client self.client names, and the stream it carries
  heap,           \* the list objects made for PkRows, by identity
  events,         \* the events handed to the caller, each with the identity of its PkRows
  last,           \* the last call made on the connection: what it did, what it gave
  returned,       \* what the caller got for each reply pulled so far, in call order
  phase,          \* position of the caller in the documented scenario
  raw_response,   \* decoder: the dict handed to EventData(...)
  wire_reply,     \* decoder: the dict as it was received (never assigned again)
  decoded         \* decoder: outcomes of the EventData(...) calls made on raw_response

connVars == <<self, client, heap, events, last, returned, phase>>

decodeVars == <<raw_response, wire_reply, decoded>>

vars == <<self, client, heap, events, last, returned, phase, raw_response, wire_reply, decoded>>

(***************************************************************************)
(* Bounds                                                                  *)
(***************************************************************************)
MaxCols == 2      \* longest PkColNames list
MaxRows == 2      \* longest PkValues list
MaxVals == 2      \* longest value list of one PkValues entry
MaxDecodes == 2   \* EventData(...) calls on one reply
MaxStream == 2    \* replies the server has for the stream

(***************************************************************************)
(* Python values                                                           *)
(***************************************************************************)
None == [t |-> "None"]
List(s) == [t |-> "list", v |-> s]

\* `not x` for x None or a list
Not(x) == x.t = "None" \/ (x.t = "list" /\ Len(x.v) = 0)

NoExc == [type |-> "None", args |-> <<>>]
KeyError(key) == [type |-> "KeyError", args |-> <<key>>]
TypeError == [type |-> "TypeError", args |-> <<"'NoneType' object is not iterable">>]
AttributeError ==
  [type |-> "AttributeError", args |-> <<"'NoneType' object has no attribute 'reply'">>]

Min(a, b) == IF a <= b THEN a ELSE b

SeqsUpTo(S, n) == UNION {[1..m -> S] : m \in 0..n}

(***************************************************************************)
(* Raw replies (response.reply): dicts of named fields                     *)
(***************************************************************************)
ColNames == {"id", "k"}
ColValues == {7, 42}

OtherFields ==
  {{"Category", "Timestamp", "GroupId", "TableName", "Sql"},
   {"Category", "Timestamp", "GroupId"},
   {"Timestamp", "GroupId"},
   {}}

FieldValue(key) ==
  CASE key = "Category" -> "DML"
    [] key = "Timestamp" -> 1399000000
    [] key = "GroupId" -> "g7"
    [] key = "TableName" -> "users"
    [] key = "Sql" -> "update users set n = 1"

\* marks a key the reply does not have
Missing == [t |-> "missing"]

PkColNamesValues == {None} \cup {List(s) : s \in SeqsUpTo(ColNames, MaxCols)}
PkListValues == {None} \cup {List(s) : s \in SeqsUpTo(ColValues, MaxVals)}
PkValuesValues == {None} \cup {List(s) : s \in SeqsUpTo(PkListValues, MaxRows)}

Reply(fields, cols, vals) ==
  [key \in fields \cup (IF cols = Missing THEN {} ELSE {"PkColNames"})
                  \cup (IF vals = Missing THEN {} ELSE {"PkValues"}) |->
     IF key = "PkColNames" THEN cols
     ELSE IF key = "PkValues" THEN vals
     ELSE FieldValue(key)]

RawReplies ==
  {Reply(f, c, v) : f \in OtherFields,
                    c \in PkColNamesValues \cup {Missing},
                    v \in PkValuesValues \cup {Missing}}

(***************************************************************************)
(* EventData.__init__                                                      *)
(***************************************************************************)
\* pk_row padding the shorter sequence (izip_longest instead of izip)
pk_row_longest(PkColNames, pkList) ==
  [i \in 1..(IF Len(PkColNames) >= Len(pkList) THEN Len(PkColNames) ELSE Len(pkList)) |->
     <<IF i <= Len(PkColNames) THEN PkColNames[i] ELSE "None",
       IF i <= Len(pkList) THEN pkList[i] ELSE 0>>]

\* [(col_name, col_value) for col_name, col_value in izip(PkColNames, pkList)]
pk_row(PkColNames, pkList) ==
  [i \in 1..Min(Len(PkColNames), Len(pkList)) |-> <<PkColNames[i], pkList[i]>>]

\* skip_pkList testing `pkList is None` instead of `not pkList`
skip_pkList_only_none(pkList) == pkList.t = "None"

\* the loop body guard: `if not pkList: continue`
skip_pkList(pkList) == Not(pkList)

\* for pkList in PkValues: ... self.PkRows.append(pk_row), starting from PkRows
RECURSIVE append_rows(_, _, _)
append_rows(PkRows, PkColNames, PkValues) ==
  IF PkValues = <<>> THEN PkRows
  ELSE append_rows(
         IF skip_pkList(Head(PkValues)) THEN PkRows
         ELSE Append(PkRows, pk_row(PkColNames, Head(PkValues).v)),
         PkColNames, Tail(PkValues))

\* del d[key]
del(d, key) == [k \in DOMAIN d \ {key} |-> d[k]]

\* d[key] = val
setitem(d, key, val) == [k \in DOMAIN d \cup {key} |-> IF k = key THEN val ELSE d[k]]

\* copy_fields that also sets the class-level defaults (TableName = None, ...)
\* on the instance
copy_fields_defaults(raw) ==
  [k \in DOMAIN raw \cup {"Category", "TableName", "Sql", "Timestamp", "GroupId", "PkRows"} |->
     IF k = "PkRows" THEN <<>> ELSE IF k \in DOMAIN raw THEN raw[k] ELSE None]

\* for key, val in raw_response.iteritems(): self.__dict__[key] = val
\* self.PkRows = []
copy_fields(raw) == setitem(raw, "PkRows", <<>>)

\* EventData_init deleting the two keys from raw_response instead of from
\* self.__dict__
EventData_init_del_raw(raw) ==
  LET d0 == copy_fields(raw) IN
  IF "PkColNames" \notin DOMAIN raw
    THEN [raised |-> TRUE, exc |-> KeyError("PkColNames"), raw |-> raw]
  ELSE IF "PkValues" \notin DOMAIN raw
    THEN [raised |-> TRUE, exc |-> KeyError("PkValues"), raw |-> del(raw, "PkColNames")]
  ELSE
    LET d == del(del(d0, "PkColNames"), "PkValues")
        after == del(del(raw, "PkColNames"), "PkValues")
    IN
    IF Not(raw["PkColNames"])
      THEN [raised |-> FALSE, dict |-> d, raw |-> after]
    ELSE IF raw["PkValues"].t = "None"
      THEN [raised |-> TRUE, exc |-> TypeError, raw |-> after]
    ELSE [raised |-> FALSE,
          dict |-> setitem(d, "PkRows",
                     append_rows(d["PkRows"], raw["PkColNames"].v, raw["PkValues"].v)),
          raw |-> after]

\* The whole constructor. Result: raised/exc, the instance __dict__ when it
\* returns, and raw_response as the call leaves it.
EventData_init(raw) ==
  LET d0 == copy_fields(raw) IN
  IF "PkColNames" \notin DOMAIN d0
    THEN [raised |-> TRUE, exc |-> KeyError("PkColNames"), raw |-> raw]
  ELSE IF "PkValues" \notin DOMAIN del(d0, "PkColNames")
    THEN [raised |-> TRUE, exc |-> KeyError("PkValues"), raw |-> raw]
  ELSE
    LET d == del(del(d0, "PkColNames"), "PkValues") IN
    IF Not(raw["PkColNames"])
      THEN [raised |-> FALSE, dict |-> d, raw |-> raw]
    ELSE IF raw["PkValues"].t = "None"
      THEN [raised |-> TRUE, exc |-> TypeError, raw |-> raw]
    ELSE [raised |-> FALSE,
          dict |-> setitem(d, "PkRows",
                     append_rows(d["PkRows"], raw["PkColNames"].v, raw["PkValues"].v)),
          raw |-> raw]

(***************************************************************************)
(* Exceptions                                                              *)
(***************************************************************************)
GoRpcError(args) == [type |-> "GoRpcError", args |-> args]
AppError(args) == [type |-> "AppError", args |-> args]
IOError(args) == [type |-> "IOError", args |-> args]
DatabaseError(args) == [type |-> "DatabaseError", args |-> args]
OperationalError(args) == [type |-> "OperationalError", args |-> args]

\* net/gorpc: class GoRpcError(Exception), class AppError(GoRpcError)
isinstance(e, cls) ==
  e.type = cls \/ (cls = "GoRpcError" /\ e.type = "AppError")

\* what a transport operation can raise
Faults ==
  {AppError(<<"invalid start position", "UpdateStream.ServeUpdateStream">>),
   GoRpcError(<<"timed out">>),
   IOError(<<"Broken pipe">>)}

(***************************************************************************)
(* Coord                                                                   *)
(***************************************************************************)
Str(s) == [t |-> "str", v |-> s]

Coord(group_id, server_id) ==
  [t |-> "Coord", GroupId |-> group_id, ServerId |-> server_id]

StartPositions ==
  {Coord(Str("g1"), None), Coord(Str("g1"), Str("s1")), Coord(Str("g2"), Str("s2"))}

(***************************************************************************)
(* The transport client (bsonrpc.BsonRpcClient)                            *)
(***************************************************************************)
AllFields == {"Category", "Timestamp", "GroupId", "TableName", "Sql"}
RequiredFields == {"Category", "Timestamp", "GroupId"}

\* replies the server streams
StreamReplies ==
  {Reply(AllFields, List(<<"id">>), List(<<List(<<42>>)>>)),
   Reply(RequiredFields, List(<<"id", "k">>), List(<<List(<<7, 42>>), List(<<>>)>>)),
   Reply(RequiredFields, None, None),
   Reply(RequiredFields, Missing, Missing)}

\* the client object made by UpdateStreamConnection.__init__
TheClient == "BsonRpcClient#1"

BsonRpcClient(script) ==
  [state |-> "new", active |-> FALSE, script |-> script, idx |-> 0]

Response(reply) == [t |-> "Response", reply |-> reply]

Ok(c, value) == [client |-> c, raised |-> FALSE, exc |-> NoExc, value |-> value]
Fail(c, e) == [client |-> c, raised |-> TRUE, exc |-> e, value |-> None]

\* the faults a call on c can meet: a client that is not connected cannot succeed
FaultsOf(c) == IF c.state = "open" THEN {NoExc} \cup Faults ELSE Faults

client_dial(c, fault) ==
  IF fault # NoExc THEN Fail(c, fault)
  ELSE Ok([c EXCEPT !.state = "open"], None)

client_close(c, fault) ==
  IF fault # NoExc THEN Fail([c EXCEPT !.state = "closed", !.active = FALSE], fault)
  ELSE Ok([c EXCEPT !.state = "closed", !.active = FALSE], None)

client_stream_call(c, method, args, fault) ==
  IF fault # NoExc THEN Fail([c EXCEPT !.active = FALSE], fault)
  ELSE Ok([c EXCEPT !.active = TRUE], None)

\* pull-next-reply: the next reply of the stream in progress, None when the
\* stream has no more data; with no stream in progress, None or an error
client_stream_next(c, fault) ==
  IF fault # NoExc THEN Fail([c EXCEPT !.active = FALSE], fault)
  ELSE IF c.active /\ c.idx < Len(c.script)
    THEN Ok([c EXCEPT !.idx = c.idx + 1], Response(c.script[c.idx + 1]))
  ELSE Ok([c EXCEPT !.active = FALSE], None)

\* one transport operation as the connection issued it
TransportOp(name, args, p) ==
  [name |-> name, args |-> args, raised |-> p.raised, exc |-> p.exc, value |-> p.value]

(***************************************************************************)
(* UpdateStreamConnection                                                  *)
(***************************************************************************)
ReturnNone == [kind |-> "None"]
ReturnEvent(d) == [kind |-> "event", dict |-> d]
Raise(e) == [kind |-> "raise", exc |-> e]

\* result of a try body
Returned(c, ops, decodes, outcome) ==
  [client |-> c, ops |-> ops, decodes |-> decodes, raised |-> FALSE,
   exc |-> NoExc, outcome |-> outcome]
Raised(c, ops, decodes, e) ==
  [client |-> c, ops |-> ops, decodes |-> decodes, raised |-> TRUE,
   exc |-> e, outcome |-> ReturnNone]

\* the attributes a method assigns on self: none
NoAttrs == [name \in {} |-> None]

\* self.<name> = value for every name of attrs
setattrs(obj, attrs) ==
  [name \in DOMAIN obj \cup DOMAIN attrs |->
     IF name \in DOMAIN attrs THEN attrs[name] ELSE obj[name]]

\* result of a method
Done(t, logged, outcome) ==
  [client |-> t.client, ops |-> t.ops, decodes |-> t.decodes, logged |-> logged,
   outcome |-> outcome, attrs |-> NoAttrs]

\* decode_reply turning a decoder failure into a None result
decode_reply_swallow(c, ops, response) ==
  LET e == EventData_init(response.reply) IN
  IF e.raised THEN Returned(c, ops, 1, ReturnNone)
  ELSE Returned(c, ops, 1, ReturnEvent(e.dict))

\* EventData(response.reply).__dict__
decode_reply(c, ops, response) ==
  LET e == EventData_init(response.reply) IN
  IF e.raised THEN Raised(c, ops, 1, e.exc)
  ELSE Returned(c, ops, 1, ReturnEvent(e.dict))

dial(c, fault) ==
  LET p == client_dial(c, fault)
      t == [client |-> p.client, ops |-> <<TransportOp("dial", <<>>, p)>>, decodes |-> 0]
  IN Done(t, 0, IF p.raised THEN Raise(p.exc) ELSE ReturnNone)

\* close reading the stream to its end before closing the transport
close_drain(c, fault) ==
  LET pull == client_stream_next(c, NoExc)
      p == client_close(pull.client, fault)
      t == [client |-> p.client,
            ops |-> IF c.active
                      THEN <<TransportOp("stream_next", <<>>, pull), TransportOp("close", <<>>, p)>>
                    ELSE <<TransportOp("close", <<>>, p)>>,
            decodes |-> 0]
  IN Done(t, 0, IF p.raised THEN Raise(p.exc) ELSE ReturnNone)

close(c, fault) ==
  LET p == client_close(c, fault)
      t == [client |-> p.client, ops |-> <<TransportOp("close", <<>>, p)>>, decodes |-> 0]
  IN Done(t, 0, IF p.raised THEN Raise(p.exc) ELSE ReturnNone)

\* the request argument of the stream call
stream_start_request(start_position) == [GroupId |-> start_position]

\* stream_start_try that issues the stream call and returns without pulling
stream_start_try_no_pull(c, start_position, callFault, pullFault) ==
  LET method == "UpdateStream.ServeUpdateStream"
      args == stream_start_request(start_position)
      call == client_stream_call(c, method, args, callFault)
      op1 == TransportOp("stream_call", <<method, args>>, call)
  IN IF call.raised THEN Raised(call.client, <<op1>>, 0, call.exc)
     ELSE Returned(call.client, <<op1>>, 0, ReturnNone)

\* stream_start_try pulling a reply although the stream call failed
stream_start_try_pull_anyway(c, start_position, callFault, pullFault) ==
  LET method == "UpdateStream.ServeUpdateStream"
      args == stream_start_request(start_position)
      call == client_stream_call(c, method, args, callFault)
      op1 == TransportOp("stream_call", <<method, args>>, call)
      pull == client_stream_next(call.client, pullFault)
      ops == <<op1, TransportOp("stream_next", <<>>, pull)>>
  IN IF call.raised THEN Raised(pull.client, ops, 0, call.exc)
     ELSE IF pull.raised THEN Raised(pull.client, ops, 0, pull.exc)
     ELSE IF pull.value = None
       THEN Returned(pull.client, ops, 0, ReturnNone)
     ELSE decode_reply(pull.client, ops, pull.value)

stream_start_try(c, start_position, callFault, pullFault) ==
  LET method == "UpdateStream.ServeUpdateStream"
      args == stream_start_request(start_position)
      call == client_stream_call(c, method, args, callFault)
      op1 == TransportOp("stream_call", <<method, args>>, call)
  IN IF call.raised THEN Raised(call.client, <<op1>>, 0, call.exc)
     ELSE LET pull == client_stream_next(call.client, pullFault)
              ops == <<op1, TransportOp("stream_next", <<>>, pull)>>
          IN IF pull.raised THEN Raised(pull.client, ops, 0, pull.exc)
             ELSE IF pull.value = None
               THEN Returned(pull.client, ops, 0, ReturnNone)
             ELSE decode_reply(pull.client, ops, pull.value)

stream_start_except(t) ==
  IF isinstance(t.exc, "GoRpcError")
    THEN Done(t, 0, Raise(OperationalError(t.exc.args)))
  ELSE Done(t, 1, Raise(t.exc))

\* stream_start remembering on the connection that a stream is in progress
stream_start_keeps_state(c, start_position, callFault, pullFault) ==
  LET t == stream_start_try(c, start_position, callFault, pullFault)
      r == IF t.raised THEN stream_start_except(t) ELSE Done(t, 0, t.outcome)
  IN [r EXCEPT !.attrs = [streaming |-> ~t.raised]]

stream_start(c, start_position, callFault, pullFault) ==
  LET t == stream_start_try(c, start_position, callFault, pullFault) IN
  IF t.raised THEN stream_start_except(t) ELSE Done(t, 0, t.outcome)

\* stream_next_try without the `if response is None` test
stream_next_try_no_none_test(c, fault) ==
  LET pull == client_stream_next(c, fault)
      ops == <<TransportOp("stream_next", <<>>, pull)>>
  IN IF pull.raised THEN Raised(pull.client, ops, 0, pull.exc)
     ELSE IF pull.value = None
       THEN Raised(pull.client, ops, 0, AttributeError)
     ELSE decode_reply(pull.client, ops, pull.value)

\* stream_next_try pulling once more after a failed pull
stream_next_try_retry(c, fault) ==
  LET pull == client_stream_next(c, fault)
      op1 == TransportOp("stream_next", <<>>, pull)
      again == client_stream_next(pull.client, NoExc)
      ops == IF pull.raised THEN <<op1, TransportOp("stream_next", <<>>, again)>>
             ELSE <<op1>>
      got == IF pull.raised THEN again ELSE pull
  IN IF got.value = None
       THEN Returned(got.client, ops, 0, ReturnNone)
     ELSE decode_reply(got.client, ops, got.value)

\* stream_next_try answering None by itself when the client has no stream
stream_next_try_idle_none(c, fault) ==
  LET pull == client_stream_next(c, fault)
      ops == <<TransportOp("stream_next", <<>>, pull)>>
  IN IF ~c.active THEN Returned(c, <<>>, 0, ReturnNone)
     ELSE IF pull.raised THEN Raised(pull.client, ops, 0, pull.exc)
     ELSE IF pull.value = None
       THEN Returned(pull.client, ops, 0, ReturnNone)
     ELSE decode_reply(pull.client, ops, pull.value)

stream_next_try(c, fault) ==
  LET pull == client_stream_next(c, fault)
      ops == <<TransportOp("stream_next", <<>>, pull)>>
  IN IF pull.raised THEN Raised(pull.client, ops, 0, pull.exc)
     ELSE IF pull.value = None
       THEN Returned(pull.client, ops, 0, ReturnNone)
     ELSE decode_reply(pull.client, ops, pull.value)

\* stream_next_except with the GoRpcError clause before the AppError clause
stream_next_except_rpc_first(t) ==
  IF isinstance(t.exc, "GoRpcError")
    THEN Done(t, 0, Raise(OperationalError(t.exc.args)))
  ELSE IF isinstance(t.exc, "AppError")
    THEN Done(t, 0, Raise(DatabaseError(t.exc.args)))
  ELSE Done(t, 1, Raise(t.exc))

\* stream_next_except whose bare except re-raises without logging
stream_next_except_no_log(t) ==
  IF isinstance(t.exc, "AppError")
    THEN Done(t, 0, Raise(DatabaseError(t.exc.args)))
  ELSE IF isinstance(t.exc, "GoRpcError")
    THEN Done(t, 0, Raise(OperationalError(t.exc.args)))
  ELSE Done(t, 0, Raise(t.exc))

stream_next_except(t) ==
  IF isinstance(t.exc, "AppError")
    THEN Done(t, 0, Raise(DatabaseError(t.exc.args)))
  ELSE IF isinstance(t.exc, "GoRpcError")
    THEN Done(t, 0, Raise(OperationalError(t.exc.args)))
  ELSE Done(t, 1, Raise(t.exc))

stream_next(c, fault) ==
  LET t == stream_next_try(c, fault) IN
  IF t.raised THEN stream_next_except(t) ELSE Done(t, 0, t.outcome)

(***************************************************************************)
(* The caller                                                              *)
(***************************************************************************)
NoCall ==
  [op |-> "__init__", arg |-> None, pre |-> BsonRpcClient(<<>>), ops |-> <<>>,
   decodes |-> 0, logged |-> 0, outcome |-> ReturnNone]

Call(op, arg, r) ==
  [op |-> op, arg |-> arg, pre |-> client, ops |-> r.ops, decodes |-> r.decodes,
   logged |-> r.logged, outcome |-> r.outcome]

\* the pull-next-reply operations of a call
Pulls(call) == SelectSeq(call.ops, LAMBDA o : o.name = "stream_next")
PulledReply(call) == \E i \in 1..Len(call.ops) :
  call.ops[i].name = "stream_next" /\ ~call.ops[i].raised /\ call.ops[i].value # None

\* scenario of the spec: open, StreamStart, StreamNext..., end of stream, Close,
\* over a transport that only delivers its replies and then ends
Streaming(c) == IF c.idx < Len(c.script) THEN "streaming" ELSE "ended"

\* PkRows sharing one list object between the events (a class-level list)
new_PkRows_shared == IF Len(heap) = 0 THEN Len(heap) + 1 ELSE Len(heap)

\* self.PkRows = []: a new list object
new_PkRows == Len(heap) + 1

\* self.PkRows.append(pk_row) for every row, on the list object id
append_PkRows(h, id, rows) ==
  IF id \in DOMAIN h THEN [h EXCEPT ![id] = h[id] \o rows] ELSE Append(h, rows)

Init ==
  /\ self = [client |-> TheClient]
  /\ client \in {BsonRpcClient(s) : s \in SeqsUpTo(StreamReplies, MaxStream)}
  /\ heap = <<>>
  /\ events = <<>>
  /\ last = NoCall
  /\ returned = <<>>
  /\ phase = "unopened"
  /\ raw_response = Reply({}, Missing, Missing)
  /\ wire_reply = raw_response
  /\ decoded = <<>>

Record(op, arg, r) ==
  /\ self' = setattrs(self, r.attrs)
  /\ client' = r.client
  /\ IF r.outcome.kind = "event"
       THEN /\ heap' = append_PkRows(heap, new_PkRows, r.outcome.dict["PkRows"])
            /\ events' = Append(events, [event |-> r.outcome.dict, PkRows |-> new_PkRows])
       ELSE UNCHANGED <<heap, events>>
  /\ last' = Call(op, arg, r)
  /\ returned' = IF PulledReply(Call(op, arg, r)) THEN Append(returned, r.outcome)
                 ELSE returned
  /\ UNCHANGED decodeVars

Dial ==
  \E fault \in {NoExc} \cup Faults :
    /\ Record("dial", None, dial(client, fault))
    /\ phase' = IF phase = "unopened" /\ fault = NoExc THEN "open" ELSE "off"

Close ==
  \E fault \in {NoExc} \cup Faults :
    /\ Record("close", None, close(client, fault))
    /\ phase' = IF phase = "ended" /\ fault = NoExc THEN "closed" ELSE "off"

StreamStart ==
  \E start_position \in StartPositions, callFault \in FaultsOf(client),
     pullFault \in {NoExc} \cup Faults :
    /\ Record("stream_start", start_position,
              stream_start(client, start_position, callFault, pullFault))
    /\ phase' = IF phase = "open" /\ callFault = NoExc /\ pullFault = NoExc
                  THEN Streaming(client) ELSE "off"

StreamNext ==
  \E fault \in FaultsOf(client) :
    /\ Record("stream_next", None, stream_next(client, fault))
    /\ phase' = IF phase = "streaming" /\ fault = NoExc
                  THEN Streaming(client) ELSE "off"

Next == Dial \/ StreamStart \/ StreamNext \/ Close

Spec == Init /\ [][Next]_vars

(***************************************************************************)
(* Decoder specification: one reply, decoded up to MaxDecodes times        *)
(***************************************************************************)
InitDecode ==
  /\ raw_response \in RawReplies
  /\ wire_reply = raw_response
  /\ decoded = <<>>
  /\ self = [client |-> TheClient]
  /\ client = BsonRpcClient(<<>>)
  /\ heap = <<>>
  /\ events = <<>>
  /\ last = NoCall
  /\ returned = <<>>
  /\ phase = "unopened"

Decode ==
  /\ Len(decoded) < MaxDecodes
  /\ LET r == EventData_init(raw_response) IN
       /\ decoded' = Append(decoded,
                       IF r.raised THEN [kind |-> "raise", exc |-> r.exc]
                       ELSE [kind |-> "return", dict |-> r.dict])
       /\ raw_response' = r.raw
  /\ UNCHANGED wire_reply
  /\ UNCHANGED connVars

NextDecode == Decode

SpecDecode == InitDecode /\ [][NextDecode]_vars

(***************************************************************************)
(* Properties                                                              *)
(***************************************************************************)
StreamOps == {"stream_start", "stream_next"}

PullRaised(call) == Len(Pulls(call)) > 0 /\ Pulls(call)[1].raised
PullExc(call) == Pulls(call)[1].exc
PulledNone(call) ==
  Len(Pulls(call)) > 0 /\ ~Pulls(call)[1].raised /\ Pulls(call)[1].value = None

\* what the caller gets for a pulled reply
DecodeOutcome(reply) ==
  IF EventData_init(reply).raised THEN Raise(EventData_init(reply).exc)
  ELSE ReturnEvent(EventData_init(reply).dict)

\* C1: stream_start and stream_next classify a failure of pull-next-reply the
\* same way: whatever the pull raises inside stream_start, the caller gets the
\* error stream_next gives for that failure (an application error of the
\* transport surfaces as dbexceptions.DatabaseError, the spec's ApplicationError).
C1_SameErrorPolicy ==
  (last.op = "stream_start" /\ PullRaised(last))
    => last.outcome = stream_next(last.pre, PullExc(last)).outcome

\* C2: in stream_next a failed pull surfaces as DatabaseError (the spec's
\* ApplicationError) with the same arguments when the transport raised AppError,
\* as OperationalError with the same arguments when it raised another
\* GoRpcError, and as the very exception raised in every other case.
C2_StreamNextClassifies ==
  (last.op = "stream_next" /\ PullRaised(last)) =>
    /\ PullExc(last).type = "AppError"
         => last.outcome = Raise(DatabaseError(PullExc(last).args))
    /\ PullExc(last).type = "GoRpcError"
         => last.outcome = Raise(OperationalError(PullExc(last).args))
    /\ PullExc(last).type \notin {"AppError", "GoRpcError"}
         => last.outcome = Raise(PullExc(last))

C2_Witness ==
  /\ last.op = "stream_next"
  /\ last.pre.active
  /\ PullRaised(last)
  /\ PullExc(last).type = "AppError"
  /\ last.outcome.kind = "raise"
  /\ last.outcome.exc.type = "DatabaseError"

\* C3: the request argument of the stream call issued by stream_start is exactly
\* {GroupId: position.GroupId}; the ServerId of the position is nowhere in it.
C3_RequestIsGroupIdOnly ==
  last.op = "stream_start" =>
    /\ last.ops[1].name = "stream_call"
    /\ last.ops[1].args[2] = [GroupId |-> last.arg.GroupId]
    /\ "ServerId" \notin DOMAIN last.ops[1].args[2]["GroupId"]

\* C4: stream_start and stream_next return None exactly when the pull yields no
\* data: then nothing is raised or logged and the decoder is not invoked; when
\* the pull yields a reply the decoder is invoked and the call does not return
\* None.
C4_NoneIffNoData ==
  last.op \in StreamOps =>
    /\ PulledNone(last) =>
         (last.outcome = ReturnNone /\ last.decodes = 0 /\ last.logged = 0)
    /\ PulledReply(last) => (last.outcome # ReturnNone /\ last.decodes = 1)
    /\ last.outcome = ReturnNone => PulledNone(last)

C4_Witness ==
  /\ last.op = "stream_next"
  /\ last.pre.active
  /\ PulledNone(last)
  /\ last.outcome = ReturnNone
  /\ Len(returned) > 0

\* C5: a reply whose PkColNames is missing, None or empty decodes without error
\* to an event whose PkRows is empty, whatever PkValues is.
C5_NoColNamesNoRows ==
  \A i \in 1..Len(decoded) :
    ("PkColNames" \notin DOMAIN wire_reply \/ Not(wire_reply["PkColNames"])) =>
      /\ decoded[i].kind = "return"
      /\ decoded[i].dict["PkRows"] = <<>>

\* the entries of PkValues that give a row
NonEmptyEntries(PkValues) ==
  SelectSeq(PkValues, LAMBDA e : e.t = "list" /\ Len(e.v) > 0)

HasRows(reply) ==
  /\ {"PkColNames", "PkValues"} \subseteq DOMAIN reply
  /\ ~Not(reply["PkColNames"])
  /\ reply["PkValues"].t = "list"

\* C6: for a reply with non-empty PkColNames and a PkValues list, PkRows holds,
\* in the original order, one row for each non-empty entry of PkValues and
\* nothing for a None or empty entry: no row is empty, and PkRows is as long as
\* the number of non-empty entries, hence no longer than PkValues.
C6_OneRowPerNonEmptyEntry ==
  \A i \in 1..Len(decoded) :
    HasRows(wire_reply) =>
      /\ decoded[i].kind = "return"
      /\ LET rows == decoded[i].dict["PkRows"]
             entries == NonEmptyEntries(wire_reply["PkValues"].v)
         IN /\ Len(rows) = Len(entries)
            /\ Len(rows) <= Len(wire_reply["PkValues"].v)
            /\ \A j \in 1..Len(rows) :
                 /\ rows[j] # <<>>
                 /\ Len(rows[j]) <= Len(entries[j].v)
                 /\ \A n \in 1..Len(rows[j]) :
                      /\ rows[j][n][1] = wire_reply["PkColNames"].v[n]
                      /\ rows[j][n][2] = entries[j].v[n]

C6_Witness ==
  /\ Len(decoded) > 0
  /\ HasRows(wire_reply)
  /\ Len(wire_reply["PkValues"].v) = 2
  /\ Not(wire_reply["PkValues"].v[1])
  /\ decoded[1].kind = "return"
  /\ Len(decoded[1].dict["PkRows"]) = 1

\* C7: decoding is a pure function of the reply: two decodings of one reply give
\* equal results, and the reply is after each call what it was before, with its
\* PkColNames and PkValues.
C7_DecodePure ==
  /\ \A i, j \in 1..Len(decoded) : decoded[i] = decoded[j]
  /\ raw_response = wire_reply

C7_Witness ==
  /\ Len(decoded) = 2
  /\ decoded[2].kind = "return"
  /\ decoded[2].dict["PkRows"] # <<>>
  /\ "PkValues" \in DOMAIN raw_response

\* C8: over a transport that delivers r1..rn and ends, on an opened connection,
\* stream_start gives the decoding of r1 and the k-th stream_next that of
\* r(k+1): every pulled reply reaches the caller, in transport order, once; the
\* call after the last reply returns None and the close that follows succeeds.
C8_InOrder ==
  /\ Len(returned) <= Len(client.script)
  /\ \A i \in 1..Len(returned) : returned[i] = DecodeOutcome(client.script[i])
  /\ phase = "streaming" =>
       /\ last.op \in StreamOps
       /\ client.idx = last.pre.idx + 1
       /\ Len(returned) = client.idx
       /\ last.outcome = DecodeOutcome(client.script[client.idx])
  /\ phase = "ended" =>
       /\ last.op \in StreamOps
       /\ Len(returned) = Len(client.script)
       /\ last.outcome = ReturnNone
  /\ phase = "closed" =>
       /\ last.op = "close"
       /\ Len(returned) = Len(client.script)
       /\ last.outcome = ReturnNone

C8_Witness ==
  /\ phase = "closed"
  /\ Len(returned) >= 2
  /\ returned[1].kind = "event"
  /\ returned[1] # returned[2]

\* C9: no retry, no reconnect: a stream_start issues exactly one stream call,
\* first, and at most one pull; a stream_next issues exactly one pull; neither
\* issues a dial or a close; a transport operation that fails is the last one
\* of its call.
C9_NoRetry ==
  last.op \in StreamOps =>
    /\ \A i \in 1..Len(last.ops) :
         /\ last.ops[i].name \in {"stream_call", "stream_next"}
         /\ last.ops[i].raised => i = Len(last.ops)
    /\ last.op = "stream_start" =>
         /\ Len(last.ops) \in {1, 2}
         /\ last.ops[1].name = "stream_call"
         /\ Len(last.ops) = 2 => last.ops[2].name = "stream_next"
    /\ last.op = "stream_next" =>
         /\ Len(last.ops) = 1
         /\ last.ops[1].name = "stream_next"

C9_Witness ==
  /\ last.op = "stream_next"
  /\ last.pre.active
  /\ PullRaised(last)
  /\ last.outcome.kind = "raise"
  /\ last.outcome.exc.type = "OperationalError"
  /\ ~client.active

\* C10 as stated: with no stream in progress stream_next raises an invalid-state
\* error and issues no pull-next-reply.
C10_FailsFast ==
  (last.op = "stream_next" /\ ~last.pre.active) =>
    /\ Pulls(last) = <<>>
    /\ last.outcome.kind = "raise"
    /\ last.outcome.exc.type = "InvalidStateError"

\* C10 amended: stream_next checks no state. With no stream in progress it
\* still issues exactly one pull-next-reply and gives what that pull yields:
\* None when the pull yields no data, the classified error when it raises.
C10_PullsRegardless ==
  (last.op = "stream_next" /\ ~last.pre.active) =>
    /\ Len(Pulls(last)) = 1
    /\ PulledNone(last) => last.outcome = ReturnNone
    /\ PullRaised(last) =>
         /\ last.outcome.kind = "raise"
         /\ last.outcome.exc.type \in {"DatabaseError", "OperationalError", PullExc(last).type}

C10_Witness ==
  /\ last.op = "stream_next"
  /\ last.pre.state = "open"
  /\ ~last.pre.active
  /\ last.pre.idx < Len(last.pre.script)
  /\ PulledNone(last)
  /\ last.outcome = ReturnNone

\* C11: in every state reached after dial (no stream issued, stream in
\* progress, stream exhausted, stream errored) close performs exactly one
\* transport close and no stream call or pull, logs nothing, and raises exactly
\* what the transport's close raises, returning None otherwise.
C11_CloseOnlyCloses ==
  last.op = "close" =>
    /\ Len(last.ops) = 1
    /\ last.ops[1].name = "close"
    /\ last.decodes = 0
    /\ last.logged = 0
    /\ last.outcome = IF last.ops[1].raised THEN Raise(last.ops[1].exc) ELSE ReturnNone

C11_Witness ==
  /\ last.op = "close"
  /\ last.pre.state = "open"
  /\ last.pre.active
  /\ last.pre.idx < Len(last.pre.script)
  /\ last.outcome = ReturnNone
  /\ client.state = "closed"

\* C12: decoding raises exactly for the replies that lack one of Category,
\* Timestamp, GroupId; in particular a reply that lacks PkColNames or PkValues,
\* and has the three, decodes.
C12_FailsOnlyOnRequiredFields ==
  \A i \in 1..Len(decoded) :
    decoded[i].kind = "raise" <=> ~(RequiredFields \subseteq DOMAIN wire_reply)

\* C13: each row is the positional zip of PkColNames with the row's value list,
\* cut at the shorter of the two: for the j-th non-empty value list pkList the
\* row has min(len(PkColNames), len(pkList)) pairs, the i-th being
\* (PkColNames[i], pkList[i]); unequal lengths neither raise nor pad.
C13_ZipStopsAtShorter ==
  \A d \in 1..Len(decoded) :
    HasRows(wire_reply) =>
      /\ decoded[d].kind = "return"
      /\ LET cols == wire_reply["PkColNames"].v
             lists == NonEmptyEntries(wire_reply["PkValues"].v)
             rows == decoded[d].dict["PkRows"]
         IN \A j \in 1..Min(Len(rows), Len(lists)) :
              /\ Len(rows[j]) = Min(Len(cols), Len(lists[j].v))
              /\ \A i \in 1..Len(rows[j]) :
                   /\ rows[j][i][1] = cols[i]
                   /\ rows[j][i][2] = lists[j].v[i]

C13_Witness ==
  /\ Len(decoded) > 0
  /\ HasRows(wire_reply)
  /\ wire_reply["PkColNames"] = List(<<"id", "k">>)
  /\ wire_reply["PkValues"] = List(<<List(<<42>>), List(<<7, 42>>)>>)
  /\ decoded[1].kind = "return"
  /\ Len(decoded[1].dict["PkRows"]) = 2
  /\ Len(decoded[1].dict["PkRows"][1]) = 1
  /\ Len(decoded[1].dict["PkRows"][2]) = 2

\* the reply a call pulled
PulledReplyOf(call) == Pulls(call)[1].value.reply

\* C14: the event stream_start / stream_next returns has exactly the fields of
\* the pulled reply other than PkColNames and PkValues, each with the reply's
\* value, plus PkRows: PkColNames and PkValues are not in it, and a field the
\* reply lacks (TableName, Sql) is not in it either.
C14_EventFields ==
  (last.op \in StreamOps /\ last.outcome.kind = "event") =>
    LET reply == PulledReplyOf(last)
        event == last.outcome.dict
    IN /\ DOMAIN event = (DOMAIN reply \ {"PkColNames", "PkValues"}) \cup {"PkRows"}
       /\ \A key \in DOMAIN reply \ {"PkColNames", "PkValues", "PkRows"} :
            event[key] = reply[key]

C14_Witness ==
  /\ last.op = "stream_start"
  /\ last.outcome.kind = "event"
  /\ DOMAIN PulledReplyOf(last) = RequiredFields \cup {"PkColNames", "PkValues"}
  /\ DOMAIN last.outcome.dict = RequiredFields \cup {"PkRows"}
  /\ last.outcome.dict["PkRows"] # <<>>

\* C15: a pull failure that is neither an AppError nor another GoRpcError is
\* logged exactly once and re-raised as it is; a call that raises a classified
\* error (DatabaseError, OperationalError) or returns None at the end of the
\* stream logs nothing.
C15_LogsOnlyUnclassified ==
  last.op \in StreamOps =>
    /\ (PullRaised(last) /\ PullExc(last).type \notin {"AppError", "GoRpcError"}) =>
         (last.logged = 1 /\ last.outcome = Raise(PullExc(last)))
    /\ (last.outcome.kind = "raise"
          /\ last.outcome.exc.type \in {"DatabaseError", "OperationalError"}) =>
         last.logged = 0
    /\ last.outcome = ReturnNone => last.logged = 0

C15_Witness ==
  /\ last.op = "stream_next"
  /\ last.pre.active
  /\ PullRaised(last)
  /\ PullExc(last).type = "IOError"
  /\ last.logged = 1
  /\ last.outcome = Raise(PullExc(last))

\* C18: when the stream call of stream_start fails, no pull-next-reply is
\* attempted and the failure goes through stream_start's handlers: a GoRpcError
\* (AppError included) surfaces as OperationalError with the same arguments and
\* is not logged, anything else is logged once and re-raised as it is.
C18_StreamCallFailure ==
  (last.op = "stream_start" /\ last.ops[1].raised) =>
    /\ Len(last.ops) = 1
    /\ Pulls(last) = <<>>
    /\ last.ops[1].exc.type \in {"GoRpcError", "AppError"} =>
         /\ last.outcome = Raise(OperationalError(last.ops[1].exc.args))
         /\ last.logged = 0
    /\ last.ops[1].exc.type \notin {"GoRpcError", "AppError"} =>
         /\ last.outcome = Raise(last.ops[1].exc)
         /\ last.logged = 1

C18_Witness ==
  /\ last.op = "stream_start"
  /\ last.pre.state = "open"
  /\ last.ops[1].name = "stream_call"
  /\ last.ops[1].raised
  /\ last.ops[1].exc.type = "GoRpcError"
  /\ last.outcome.kind = "raise"
  /\ last.outcome.exc.type = "OperationalError"

\* a call that pulled a reply the decoder rejects
DecodeFailed(call) ==
  /\ call.op \in StreamOps
  /\ PulledReply(call)
  /\ EventData_init(PulledReplyOf(call)).raised

\* C19: when the decoder raises on a pulled reply, the call raises the decoder's
\* exception as it is, logged once, never DatabaseError, OperationalError or a
\* None result; the reply stays consumed, so the next pull gets the reply after
\* it.
C19_DecodeFailure ==
  DecodeFailed(last) =>
    /\ last.outcome = Raise(EventData_init(PulledReplyOf(last)).exc)
    /\ last.outcome.exc.type \notin {"DatabaseError", "OperationalError"}
    /\ last.logged = 1
    /\ last.decodes = 1
    /\ client.idx = last.pre.idx + 1
    /\ PulledReplyOf(last) = client.script[client.idx]

C19_Witness ==
  /\ DecodeFailed(last)
  /\ last.op = "stream_start"
  /\ last.outcome = Raise(KeyError("PkColNames"))
  /\ client.active
  /\ client.idx = 1
  /\ Len(client.script) = 2

\* C16: whatever calls were made, and whether they succeeded or failed, the
\* connection object has the one attribute client and it names the transport
\* client its constructor made: no call replaces it or adds an attribute.
C16_OneClientNoState ==
  /\ DOMAIN self = {"client"}
  /\ self["client"] = TheClient

C16_Witness ==
  /\ last.op = "stream_next"
  /\ PullRaised(last)
  /\ Len(returned) > 0
  /\ client.state = "open"
  /\ self = [client |-> TheClient]

\* the replies pulled so far that the decoder accepts
DecodedReplies ==
  SelectSeq(SubSeq(client.script, 1, client.idx), LAMBDA r : ~EventData_init(r).raised)

\* C17: the i-th event handed to the caller is the decoding of one reply, the
\* i-th that decodes, and is now what it was when handed over, PkRows included:
\* its PkRows list holds the rows of that reply only, and no two events have
\* the same PkRows list.
C17_EventsFreshAndUnchanged ==
  /\ Len(events) = Len(DecodedReplies)
  /\ \A i \in 1..Len(events) :
       /\ events[i].event = EventData_init(DecodedReplies[i]).dict
       /\ events[i].PkRows \in DOMAIN heap
       /\ heap[events[i].PkRows] = events[i].event["PkRows"]
  /\ \A i, j \in 1..Len(events) : i # j => events[i].PkRows # events[j].PkRows

C17_Witness ==
  /\ Len(events) = 2
  /\ events[1].event["PkRows"] # <<>>
  /\ events[2].event["PkRows"] # <<>>
  /\ last.op = "close"

====
